---- MODULE Spec2Model ----
(***************************************************************************)
(* Model of app/utils/file_handler.py: filename normalisation, upload      *)
(* validation, collision-avoiding path resolution, saving, stat and        *)
(* deletion of uploaded files on a shared file system.                     *)
(*                                                                         *)
(* Text is a sequence of Unicode code points (46 is '.', 47 is '/',        *)
(* 95 is '_'); bytes are sequences of numbers in 0..255.                   *)
(***************************************************************************)
EXTENDS Integers, Sequences, FiniteSets, TLC

(***************************************************************************)
(* Bounds of the model.                                                    *)
(***************************************************************************)
\* operations each request handler runs
MaxOps == 2
\* bytes in an upload's stream
MaxData == 1
\* length of the filenames the pure functions are applied to
MaxLen == 3
\* length of the filenames over the extension alphabet
MaxExtLen == 4
\* the counters new_filename is applied to
MaxCounter == 2
\* failures of the storage that the state of the model does not explain (an
\* I/O error, a full disk, a stream that cannot seek) in one run
MaxFaults == 1

(***************************************************************************)
(* Text helpers.                                                           *)
(***************************************************************************)
RECURSIVE rfind(_, _)
\* str.rfind(c): the last index (1-based) of c in s, 0 when there is none
rfind(s, c) ==
    IF s = <<>> THEN 0
    ELSE IF s[Len(s)] = c THEN Len(s)
    ELSE rfind(SubSeq(s, 1, Len(s) - 1), c)

\* the text from index i (1-based) to the end
From(s, i) == SubSeq(s, i, Len(s))

RECURSIVE SeqsUpTo(_, _)
\* every sequence over A of length at most n
SeqsUpTo(A, n) ==
    IF n = 0 THEN {<<>>}
    ELSE LET shorter == SeqsUpTo(A, n - 1)
         IN  shorter \cup {Append(s, a) : s \in shorter, a \in A}

(***************************************************************************)
(* normalize_filename                                                      *)
(***************************************************************************)
\* b is a continuation byte within lo..hi
Cont(b, lo, hi) == b >= lo /\ b <= hi

\* the length of the well-formed UTF-8 sequence b begins with, 0 when it
\* begins with none: overlong forms, surrogates and code points above
\* 0x10FFFF are not well formed
Utf8Len(b) ==
    IF b[1] < 128 THEN 1
    ELSE IF b[1] >= 194 /\ b[1] <= 223
         THEN IF Len(b) >= 2 /\ Cont(b[2], 128, 191) THEN 2 ELSE 0
    ELSE IF b[1] >= 224 /\ b[1] <= 239
         THEN IF /\ Len(b) >= 3
                 /\ Cont(b[2], IF b[1] = 224 THEN 160 ELSE 128,
                               IF b[1] = 237 THEN 159 ELSE 191)
                 /\ Cont(b[3], 128, 191)
              THEN 3 ELSE 0
    ELSE IF b[1] >= 240 /\ b[1] <= 244
         THEN IF /\ Len(b) >= 4
                 /\ Cont(b[2], IF b[1] = 240 THEN 144 ELSE 128,
                               IF b[1] = 244 THEN 143 ELSE 191)
                 /\ Cont(b[3], 128, 191)
                 /\ Cont(b[4], 128, 191)
              THEN 4 ELSE 0
    ELSE 0

RECURSIVE Utf8Valid(_)
\* bytes.decode('utf-8') succeeds
Utf8Valid(b) ==
    IF b = <<>> THEN TRUE
    ELSE Utf8Len(b) > 0 /\ Utf8Valid(From(b, Utf8Len(b) + 1))

\* the code point of a well-formed sequence of n bytes at the start of b
Utf8Point(b, n) ==
    CASE n = 1 -> b[1]
      [] n = 2 -> (b[1] % 32) * 64 + (b[2] % 64)
      [] n = 3 -> (b[1] % 16) * 4096 + (b[2] % 64) * 64 + (b[3] % 64)
      [] n = 4 -> (b[1] % 8) * 262144 + (b[2] % 64) * 4096
                     + (b[3] % 64) * 64 + (b[4] % 64)

RECURSIVE Utf8Decode(_)
\* the text of well-formed UTF-8 bytes
Utf8Decode(b) ==
    IF b = <<>> THEN <<>>
    ELSE <<Utf8Point(b, Utf8Len(b))>> \o Utf8Decode(From(b, Utf8Len(b) + 1))

\* bytes.decode('latin-1'): byte b is code point b; it never fails
Latin1Decode(b) == b

\* isinstance(filename, bytes) branch of normalize_filename
DecodeBytes(b) == IF Utf8Valid(b) THEN Utf8Decode(b) ELSE Latin1Decode(b)

\* The characters the model covers: the code points below 384 (Basic Latin,
\* Latin-1, Latin Extended-A), the combining marks their decompositions use,
\* KELVIN SIGN, and every character whose canonical decomposition is made of
\* these.  A character outside is taken to decompose, compose and lower-case
\* to itself.
\*
\* unicodedata.decomposition(c) of the characters that have a canonical one:
\* <<c, first, second>>, second 0 when the decomposition is one character
DecompositionTable ==
    {
      <<192, 65, 768>>, <<193, 65, 769>>, <<194, 65, 770>>, <<195, 65,
      771>>, <<196, 65, 776>>, <<197, 65, 778>>, <<199, 67, 807>>, <<200,
      69, 768>>, <<201, 69, 769>>, <<202, 69, 770>>, <<203, 69, 776>>,
      <<204, 73, 768>>, <<205, 73, 769>>, <<206, 73, 770>>, <<207, 73,
      776>>, <<209, 78, 771>>, <<210, 79, 768>>, <<211, 79, 769>>, <<212,
      79, 770>>, <<213, 79, 771>>, <<214, 79, 776>>, <<217, 85, 768>>,
      <<218, 85, 769>>, <<219, 85, 770>>, <<220, 85, 776>>, <<221, 89,
      769>>, <<224, 97, 768>>, <<225, 97, 769>>, <<226, 97, 770>>, <<227,
      97, 771>>, <<228, 97, 776>>, <<229, 97, 778>>, <<231, 99, 807>>,
      <<232, 101, 768>>, <<233, 101, 769>>, <<234, 101, 770>>, <<235, 101,
      776>>, <<236, 105, 768>>, <<237, 105, 769>>, <<238, 105, 770>>, <<239,
      105, 776>>, <<241, 110, 771>>, <<242, 111, 768>>, <<243, 111, 769>>,
      <<244, 111, 770>>, <<245, 111, 771>>, <<246, 111, 776>>, <<249, 117,
      768>>, <<250, 117, 769>>, <<251, 117, 770>>, <<252, 117, 776>>, <<253,
      121, 769>>, <<255, 121, 776>>, <<256, 65, 772>>, <<257, 97, 772>>,
      <<258, 65, 774>>, <<259, 97, 774>>, <<260, 65, 808>>, <<261, 97,
      808>>, <<262, 67, 769>>, <<263, 99, 769>>, <<264, 67, 770>>, <<265,
      99, 770>>, <<266, 67, 775>>, <<267, 99, 775>>, <<268, 67, 780>>,
      <<269, 99, 780>>, <<270, 68, 780>>, <<271, 100, 780>>, <<274, 69,
      772>>, <<275, 101, 772>>, <<276, 69, 774>>, <<277, 101, 774>>, <<278,
      69, 775>>, <<279, 101, 775>>, <<280, 69, 808>>, <<281, 101, 808>>,
      <<282, 69, 780>>, <<283, 101, 780>>, <<284, 71, 770>>, <<285, 103,
      770>>, <<286, 71, 774>>, <<287, 103, 774>>, <<288, 71, 775>>, <<289,
      103, 775>>, <<290, 71, 807>>, <<291, 103, 807>>, <<292, 72, 770>>,
      <<293, 104, 770>>, <<296, 73, 771>>, <<297, 105, 771>>, <<298, 73,
      772>>, <<299, 105, 772>>, <<300, 73, 774>>, <<301, 105, 774>>, <<302,
      73, 808>>, <<303, 105, 808>>, <<304, 73, 775>>, <<308, 74, 770>>,
      <<309, 106, 770>>, <<310, 75, 807>>, <<311, 107, 807>>, <<313, 76,
      769>>, <<314, 108, 769>>, <<315, 76, 807>>, <<316, 108, 807>>, <<317,
      76, 780>>, <<318, 108, 780>>, <<323, 78, 769>>, <<324, 110, 769>>,
      <<325, 78, 807>>, <<326, 110, 807>>, <<327, 78, 780>>, <<328, 110,
      780>>, <<332, 79, 772>>, <<333, 111, 772>>, <<334, 79, 774>>, <<335,
      111, 774>>, <<336, 79, 779>>, <<337, 111, 779>>, <<340, 82, 769>>,
      <<341, 114, 769>>, <<342, 82, 807>>, <<343, 114, 807>>, <<344, 82,
      780>>, <<345, 114, 780>>, <<346, 83, 769>>, <<347, 115, 769>>, <<348,
      83, 770>>, <<349, 115, 770>>, <<350, 83, 807>>, <<351, 115, 807>>,
      <<352, 83, 780>>, <<353, 115, 780>>, <<354, 84, 807>>, <<355, 116,
      807>>, <<356, 84, 780>>, <<357, 116, 780>>, <<360, 85, 771>>, <<361,
      117, 771>>, <<362, 85, 772>>, <<363, 117, 772>>, <<364, 85, 774>>,
      <<365, 117, 774>>, <<366, 85, 778>>, <<367, 117, 778>>, <<368, 85,
      779>>, <<369, 117, 779>>, <<370, 85, 808>>, <<371, 117, 808>>, <<372,
      87, 770>>, <<373, 119, 770>>, <<374, 89, 770>>, <<375, 121, 770>>,
      <<376, 89, 776>>, <<377, 90, 769>>, <<378, 122, 769>>, <<379, 90,
      775>>, <<380, 122, 775>>, <<381, 90, 780>>, <<382, 122, 780>>, <<461,
      65, 780>>, <<462, 97, 780>>, <<463, 73, 780>>, <<464, 105, 780>>,
      <<465, 79, 780>>, <<466, 111, 780>>, <<467, 85, 780>>, <<468, 117,
      780>>, <<469, 220, 772>>, <<470, 252, 772>>, <<471, 220, 769>>, <<472,
      252, 769>>, <<473, 220, 780>>, <<474, 252, 780>>, <<475, 220, 768>>,
      <<476, 252, 768>>, <<478, 196, 772>>, <<479, 228, 772>>, <<480, 550,
      772>>, <<481, 551, 772>>, <<482, 198, 772>>, <<483, 230, 772>>, <<486,
      71, 780>>, <<487, 103, 780>>, <<488, 75, 780>>, <<489, 107, 780>>,
      <<490, 79, 808>>, <<491, 111, 808>>, <<492, 490, 772>>, <<493, 491,
      772>>, <<496, 106, 780>>, <<500, 71, 769>>, <<501, 103, 769>>, <<504,
      78, 768>>, <<505, 110, 768>>, <<506, 197, 769>>, <<507, 229, 769>>,
      <<508, 198, 769>>, <<509, 230, 769>>, <<510, 216, 769>>, <<511, 248,
      769>>, <<542, 72, 780>>, <<543, 104, 780>>, <<550, 65, 775>>, <<551,
      97, 775>>, <<552, 69, 807>>, <<553, 101, 807>>, <<554, 214, 772>>,
      <<555, 246, 772>>, <<556, 213, 772>>, <<557, 245, 772>>, <<558, 79,
      775>>, <<559, 111, 775>>, <<560, 558, 772>>, <<561, 559, 772>>, <<562,
      89, 772>>, <<563, 121, 772>>, <<832, 768, 0>>, <<833, 769, 0>>, <<836,
      776, 769>>, <<894, 59, 0>>, <<901, 168, 769>>, <<903, 183, 0>>,
      <<7682, 66, 775>>, <<7683, 98, 775>>, <<7688, 199, 769>>, <<7689, 231,
      769>>, <<7690, 68, 775>>, <<7691, 100, 775>>, <<7696, 68, 807>>,
      <<7697, 100, 807>>, <<7700, 274, 768>>, <<7701, 275, 768>>, <<7702,
      274, 769>>, <<7703, 275, 769>>, <<7708, 552, 774>>, <<7709, 553,
      774>>, <<7710, 70, 775>>, <<7711, 102, 775>>, <<7712, 71, 772>>,
      <<7713, 103, 772>>, <<7714, 72, 775>>, <<7715, 104, 775>>, <<7718, 72,
      776>>, <<7719, 104, 776>>, <<7720, 72, 807>>, <<7721, 104, 807>>,
      <<7726, 207, 769>>, <<7727, 239, 769>>, <<7728, 75, 769>>, <<7729,
      107, 769>>, <<7742, 77, 769>>, <<7743, 109, 769>>, <<7744, 77, 775>>,
      <<7745, 109, 775>>, <<7748, 78, 775>>, <<7749, 110, 775>>, <<7756,
      213, 769>>, <<7757, 245, 769>>, <<7758, 213, 776>>, <<7759, 245,
      776>>, <<7760, 332, 768>>, <<7761, 333, 768>>, <<7762, 332, 769>>,
      <<7763, 333, 769>>, <<7764, 80, 769>>, <<7765, 112, 769>>, <<7766, 80,
      775>>, <<7767, 112, 775>>, <<7768, 82, 775>>, <<7769, 114, 775>>,
      <<7776, 83, 775>>, <<7777, 115, 775>>, <<7780, 346, 775>>, <<7781,
      347, 775>>, <<7782, 352, 775>>, <<7783, 353, 775>>, <<7786, 84, 775>>,
      <<7787, 116, 775>>, <<7800, 360, 769>>, <<7801, 361, 769>>, <<7802,
      362, 776>>, <<7803, 363, 776>>, <<7804, 86, 771>>, <<7805, 118, 771>>,
      <<7808, 87, 768>>, <<7809, 119, 768>>, <<7810, 87, 769>>, <<7811, 119,
      769>>, <<7812, 87, 776>>, <<7813, 119, 776>>, <<7814, 87, 775>>,
      <<7815, 119, 775>>, <<7818, 88, 775>>, <<7819, 120, 775>>, <<7820, 88,
      776>>, <<7821, 120, 776>>, <<7822, 89, 775>>, <<7823, 121, 775>>,
      <<7824, 90, 770>>, <<7825, 122, 770>>, <<7831, 116, 776>>, <<7832,
      119, 778>>, <<7833, 121, 778>>, <<7835, 383, 775>>, <<7844, 194,
      769>>, <<7845, 226, 769>>, <<7846, 194, 768>>, <<7847, 226, 768>>,
      <<7850, 194, 771>>, <<7851, 226, 771>>, <<7854, 258, 769>>, <<7855,
      259, 769>>, <<7856, 258, 768>>, <<7857, 259, 768>>, <<7860, 258,
      771>>, <<7861, 259, 771>>, <<7868, 69, 771>>, <<7869, 101, 771>>,
      <<7870, 202, 769>>, <<7871, 234, 769>>, <<7872, 202, 768>>, <<7873,
      234, 768>>, <<7876, 202, 771>>, <<7877, 234, 771>>, <<7888, 212,
      769>>, <<7889, 244, 769>>, <<7890, 212, 768>>, <<7891, 244, 768>>,
      <<7894, 212, 771>>, <<7895, 244, 771>>, <<7922, 89, 768>>, <<7923,
      121, 768>>, <<7928, 89, 771>>, <<7929, 121, 771>>, <<8173, 168, 768>>,
      <<8174, 901, 0>>, <<8175, 96, 0>>, <<8189, 180, 0>>, <<8490, 75, 0>>,
      <<8491, 197, 0>>, <<8800, 61, 824>>, <<8814, 60, 824>>, <<8815, 62,
      824>>
    }

\* the characters that decompose
Decomposable == {t[1] : t \in DecompositionTable}

\* the canonical decomposition of a character of Decomposable
Decomposition ==
    [c \in Decomposable |->
        LET t == CHOOSE t \in DecompositionTable : t[1] = c
        IN  IF t[3] = 0 THEN <<t[2]>> ELSE <<t[2], t[3]>>]

\* unicodedata.combining(c): the canonical combining class
CombiningClass(c) ==
    CASE c = 824 -> 1
      [] c \in {807, 808} -> 202
      [] c \in {768, 769, 770, 771, 772, 774, 775, 776, 778, 779, 780,
                832, 833, 836} -> 230
      [] OTHER -> 0

\* the characters with a decomposition of two that composition does not
\* produce (836 decomposes to two combining marks)
NotComposed == {836}

\* the pairs that compose
Composable ==
    {<<t[2], t[3]>> : t \in {x \in DecompositionTable :
                                x[3] # 0 /\ x[1] \notin NotComposed}}

\* the primary composite of a pair of Composable
Composite ==
    [k \in Composable |->
        (CHOOSE t \in DecompositionTable : t[2] = k[1] /\ t[3] = k[2])[1]]

RECURSIVE Decompose(_)
\* every character replaced by its full canonical decomposition
Decompose(s) ==
    IF s = <<>> THEN <<>>
    ELSE (IF s[1] \in Decomposable THEN Decompose(Decomposition[s[1]])
          ELSE <<s[1]>>) \o Decompose(Tail(s))

RECURSIVE Reorder(_)
\* canonical ordering: combining marks next to each other are put in the
\* order of their combining classes, marks of one class keeping theirs
Reorder(s) ==
    LET out == {i \in 1..(Len(s) - 1) :
                   /\ CombiningClass(s[i + 1]) > 0
                   /\ CombiningClass(s[i]) > CombiningClass(s[i + 1])}
    IN  IF out = {} THEN s
        ELSE LET i == CHOOSE i \in out : \A k \in out : i <= k
             IN  Reorder([s EXCEPT ![i] = s[i + 1], ![i + 1] = s[i]])

\* unicodedata.normalize('NFD', s)
NFD(s) == Reorder(Decompose(s))

RECURSIVE Recompose(_, _, _, _)
\* canonical composition of rest onto out, whose last starter is at index
\* starter and whose last character has class lastClass: a character
\* composes with the starter when the pair is composable and no character
\* of its class or a higher one, and no other starter, stands between them
Recompose(out, starter, lastClass, rest) ==
    IF rest = <<>> THEN out
    ELSE LET ch == rest[1]
             chClass == CombiningClass(ch)
             pair == <<out[starter], ch>>
         IN  IF pair \in Composable /\ (lastClass < chClass \/ lastClass = 0)
             THEN Recompose([out EXCEPT ![starter] = Composite[pair]],
                            starter, lastClass, Tail(rest))
             ELSE Recompose(Append(out, ch),
                            IF chClass = 0 THEN Len(out) + 1 ELSE starter,
                            chClass, Tail(rest))

\* the composition step of NFC on a decomposed text; a text that begins
\* with a combining mark has no starter for the marks that follow to
\* compose with
NFCompose(s) ==
    IF s = <<>> THEN s
    ELSE Recompose(<<s[1]>>, 1,
                   IF CombiningClass(s[1]) = 0 THEN 0 ELSE 256, Tail(s))

\* unicodedata.normalize('NFC', filename)
NFC(s) == NFCompose(NFD(s))

\* the character class of the substitution: \ / * ? : " < > |
UnsafeChars == {92, 47, 42, 63, 58, 34, 60, 62, 124}

RECURSIVE SubFirstUnsafe(_)
\* a substitution of the first unsafe character only (re.sub with count=1)
SubFirstUnsafe(s) ==
    IF s = <<>> THEN <<>>
    ELSE IF s[1] \in UnsafeChars THEN <<95>> \o Tail(s)
    ELSE <<s[1]>> \o SubFirstUnsafe(Tail(s))

\* re.sub(r'[\\/*?:"<>|]', '_', filename)
SubUnsafe(s) == [i \in 1..Len(s) |-> IF s[i] \in UnsafeChars THEN 95 ELSE s[i]]

\* a filename is text or bytes
Text(s) == [bytes |-> FALSE, v |-> s]
Bytes(b) == [bytes |-> TRUE, v |-> b]

normalize_filename(filename) ==
    LET text == IF filename.bytes THEN DecodeBytes(filename.v) ELSE filename.v
    IN  SubUnsafe(NFC(text))

(***************************************************************************)
(* os.path and str helpers                                                 *)
(***************************************************************************)
RECURSIVE FirstNonDot(_, _, _)
\* the loop of genericpath._splitext: whether p has a character other
\* than '.' at an index in i..(dot - 1)
FirstNonDot(p, i, dot) ==
    IF i >= dot THEN FALSE
    ELSE IF p[i] # 46 THEN TRUE
    ELSE FirstNonDot(p, i + 1, dot)

\* os.path.splitext(p): <<root, ext>>; leading dots of the last component
\* start no extension
splitext(p) ==
    LET sepIndex == rfind(p, 47)
        dotIndex == rfind(p, 46)
    IN  IF dotIndex > sepIndex /\ FirstNonDot(p, sepIndex + 1, dotIndex)
        THEN <<SubSeq(p, 1, dotIndex - 1), From(p, dotIndex)>>
        ELSE <<p, <<>>>>

\* os.path.join(a, b)
join(a, b) ==
    IF b # <<>> /\ b[1] = 47 THEN b
    ELSE IF a = <<>> \/ a[Len(a)] = 47 THEN a \o b
    ELSE a \o <<47>> \o b

RECURSIVE rstripSep(_)
rstripSep(s) ==
    IF s = <<>> \/ s[Len(s)] # 47 THEN s
    ELSE rstripSep(SubSeq(s, 1, Len(s) - 1))

\* os.path.dirname(p)
dirname(p) ==
    LET i == rfind(p, 47)
        head == SubSeq(p, 1, i)
    IN  IF head # <<>> /\ \E k \in 1..Len(head) : head[k] # 47
        THEN rstripSep(head) ELSE head

\* os.path.basename(p)
basename(p) == From(p, rfind(p, 47) + 1)

\* the lower case of the characters outside A..Z that have one:
\* <<c, first, second>>, second 0 when the lower case is one character
LowerTable ==
    {
      <<192, 224, 0>>, <<193, 225, 0>>, <<194, 226, 0>>, <<195, 227, 0>>,
      <<196, 228, 0>>, <<197, 229, 0>>, <<198, 230, 0>>, <<199, 231, 0>>,
      <<200, 232, 0>>, <<201, 233, 0>>, <<202, 234, 0>>, <<203, 235, 0>>,
      <<204, 236, 0>>, <<205, 237, 0>>, <<206, 238, 0>>, <<207, 239, 0>>,
      <<208, 240, 0>>, <<209, 241, 0>>, <<210, 242, 0>>, <<211, 243, 0>>,
      <<212, 244, 0>>, <<213, 245, 0>>, <<214, 246, 0>>, <<216, 248, 0>>,
      <<217, 249, 0>>, <<218, 250, 0>>, <<219, 251, 0>>, <<220, 252, 0>>,
      <<221, 253, 0>>, <<222, 254, 0>>, <<256, 257, 0>>, <<258, 259, 0>>,
      <<260, 261, 0>>, <<262, 263, 0>>, <<264, 265, 0>>, <<266, 267, 0>>,
      <<268, 269, 0>>, <<270, 271, 0>>, <<272, 273, 0>>, <<274, 275, 0>>,
      <<276, 277, 0>>, <<278, 279, 0>>, <<280, 281, 0>>, <<282, 283, 0>>,
      <<284, 285, 0>>, <<286, 287, 0>>, <<288, 289, 0>>, <<290, 291, 0>>,
      <<292, 293, 0>>, <<294, 295, 0>>, <<296, 297, 0>>, <<298, 299, 0>>,
      <<300, 301, 0>>, <<302, 303, 0>>, <<304, 105, 775>>, <<306, 307, 0>>,
      <<308, 309, 0>>, <<310, 311, 0>>, <<313, 314, 0>>, <<315, 316, 0>>,
      <<317, 318, 0>>, <<319, 320, 0>>, <<321, 322, 0>>, <<323, 324, 0>>,
      <<325, 326, 0>>, <<327, 328, 0>>, <<330, 331, 0>>, <<332, 333, 0>>,
      <<334, 335, 0>>, <<336, 337, 0>>, <<338, 339, 0>>, <<340, 341, 0>>,
      <<342, 343, 0>>, <<344, 345, 0>>, <<346, 347, 0>>, <<348, 349, 0>>,
      <<350, 351, 0>>, <<352, 353, 0>>, <<354, 355, 0>>, <<356, 357, 0>>,
      <<358, 359, 0>>, <<360, 361, 0>>, <<362, 363, 0>>, <<364, 365, 0>>,
      <<366, 367, 0>>, <<368, 369, 0>>, <<370, 371, 0>>, <<372, 373, 0>>,
      <<374, 375, 0>>, <<376, 255, 0>>, <<377, 378, 0>>, <<379, 380, 0>>,
      <<381, 382, 0>>, <<461, 462, 0>>, <<463, 464, 0>>, <<465, 466, 0>>,
      <<467, 468, 0>>, <<469, 470, 0>>, <<471, 472, 0>>, <<473, 474, 0>>,
      <<475, 476, 0>>, <<478, 479, 0>>, <<480, 481, 0>>, <<482, 483, 0>>,
      <<486, 487, 0>>, <<488, 489, 0>>, <<490, 491, 0>>, <<492, 493, 0>>,
      <<500, 501, 0>>, <<504, 505, 0>>, <<506, 507, 0>>, <<508, 509, 0>>,
      <<510, 511, 0>>, <<542, 543, 0>>, <<550, 551, 0>>, <<552, 553, 0>>,
      <<554, 555, 0>>, <<556, 557, 0>>, <<558, 559, 0>>, <<560, 561, 0>>,
      <<562, 563, 0>>, <<7682, 7683, 0>>, <<7688, 7689, 0>>, <<7690, 7691,
      0>>, <<7696, 7697, 0>>, <<7700, 7701, 0>>, <<7702, 7703, 0>>, <<7708,
      7709, 0>>, <<7710, 7711, 0>>, <<7712, 7713, 0>>, <<7714, 7715, 0>>,
      <<7718, 7719, 0>>, <<7720, 7721, 0>>, <<7726, 7727, 0>>, <<7728, 7729,
      0>>, <<7742, 7743, 0>>, <<7744, 7745, 0>>, <<7748, 7749, 0>>, <<7756,
      7757, 0>>, <<7758, 7759, 0>>, <<7760, 7761, 0>>, <<7762, 7763, 0>>,
      <<7764, 7765, 0>>, <<7766, 7767, 0>>, <<7768, 7769, 0>>, <<7776, 7777,
      0>>, <<7780, 7781, 0>>, <<7782, 7783, 0>>, <<7786, 7787, 0>>, <<7800,
      7801, 0>>, <<7802, 7803, 0>>, <<7804, 7805, 0>>, <<7808, 7809, 0>>,
      <<7810, 7811, 0>>, <<7812, 7813, 0>>, <<7814, 7815, 0>>, <<7818, 7819,
      0>>, <<7820, 7821, 0>>, <<7822, 7823, 0>>, <<7824, 7825, 0>>, <<7844,
      7845, 0>>, <<7846, 7847, 0>>, <<7850, 7851, 0>>, <<7854, 7855, 0>>,
      <<7856, 7857, 0>>, <<7860, 7861, 0>>, <<7868, 7869, 0>>, <<7870, 7871,
      0>>, <<7872, 7873, 0>>, <<7876, 7877, 0>>, <<7888, 7889, 0>>, <<7890,
      7891, 0>>, <<7894, 7895, 0>>, <<7922, 7923, 0>>, <<7928, 7929, 0>>,
      <<8490, 107, 0>>, <<8491, 229, 0>>
    }

\* the characters of LowerTable
Cased == {t[1] : t \in LowerTable}

\* the lower case of a character of Cased
Lowered ==
    [c \in Cased |->
        LET t == CHOOSE t \in LowerTable : t[1] = c
        IN  IF t[3] = 0 THEN <<t[2]>> ELSE <<t[2], t[3]>>]

\* str.lower() of one character: a text of one character, or of two
LowerChar(c) ==
    IF c >= 65 /\ c <= 90 THEN <<c + 32>>
    ELSE IF c \in Cased THEN Lowered[c]
    ELSE <<c>>

RECURSIVE lower(_)
\* str.lower()
lower(s) == IF s = <<>> THEN <<>> ELSE LowerChar(s[1]) \o lower(Tail(s))

RECURSIVE str(_)
\* the decimal digits of a natural number, as f"{counter}" formats it
str(n) ==
    IF n < 10 THEN <<48 + n>>
    ELSE str(n \div 10) \o <<48 + (n % 10)>>

(***************************************************************************)
(* Program constants and the inputs of the model.                          *)
(***************************************************************************)
\* "uploads"
UPLOAD_ROOT == <<117, 112, 108, 111, 97, 100, 115>>

\* .pdf .doc .docx .txt .rtf .md
ALLOWED_EXTENSIONS ==
    { <<46, 112, 100, 102>>, <<46, 100, 111, 99>>, <<46, 100, 111, 99, 120>>,
      <<46, 116, 120, 116>>, <<46, 114, 116, 102>>, <<46, 109, 100>> }

\* the request handlers running concurrently
Procs == {1, 2}

\* the group directory the callers pass: "g"
GroupDir == <<103>>

\* os.path.join(UPLOAD_ROOT, group_dir): "uploads/g"
GroupPath == join(UPLOAD_ROOT, GroupDir)

\* the filenames handed to generate_file_path: "r.p", "r/1.p"
FileNames == { <<114, 46, 112>>, <<114, 47, 49, 46, 112>> }

\* the filename of the upload request of handler 2: "r.p"
UploadName == <<114, 46, 112>>

\* the names present in the group directory at the start: none, "r.p", or
\* "r.p" and "r_1.p"
InitNames ==
    { {}, {<<114, 46, 112>>}, {<<114, 46, 112>>, <<114, 95, 49, 46, 112>>} }

\* the positions of its stream at which a caller calls save: it has read
\* nothing, or it has read the upload to its end
EntryPositions == {0, MaxData}

\* the path callers pass to save, stat and delete besides the path their
\* own last resolution returned: "uploads/g/r.p"
DestPaths == { join(GroupPath, <<114, 46, 112>>) }

\* the bytes of the upload of request handler p: its own number, so that a
\* stored file shows whose bytes it holds
Data(p) == [i \in 1..MaxData |-> p]

\* the content of the files present at the start, longer than any upload
OldContent == [i \in 1..(MaxData + 1) |-> 0]

(***************************************************************************)
(* State.                                                                  *)
(***************************************************************************)
VARIABLES
    fs,         \* the regular files: path -> content (a sequence of bytes)
    dirs,       \* the directories that exist
    writable,   \* whether the group directory is writable (os.W_OK)
    pc,         \* per handler: the statement it is at, "idle" between calls
    call,       \* per handler: the call in progress or last finished
    loc,        \* per handler: the local variables of the call
    ret,        \* per handler: how the last finished call ended
    pos,        \* per handler: the read position of its upload stream
    prev,       \* per handler: the call before `call` and how it ended
    dirty,      \* per handler: paths other handlers changed since `call` began
    prevDirty,  \* per handler: `dirty` as it was when `call` began
    ops,        \* per handler: the calls it has started
    faults,     \* the failures of the storage so far
    req,        \* pure functions: the input ([kind, filename])
    out         \* pure functions: the result of applying one to req

vars == <<fs, dirs, writable, pc, call, loc, ret, pos, prev, dirty, prevDirty,
          ops, faults, req, out>>
fsys == <<fs, dirs, writable>>
pure == <<req, out>>

NoCall == [op |-> "none", name |-> <<>>, from |-> 0]
NoLoc == [filename |-> <<>>, full_path |-> <<>>, relative_path |-> <<>>,
          counter |-> 0, ofs |-> 0, attached |-> FALSE, result |-> FALSE]
NoRet == [status |-> "none", fault |-> "none", ok |-> FALSE, full |-> <<>>,
          rel |-> <<>>, size |-> -1, logged |-> FALSE]
NoReq == [filename |-> Text(<<>>), present |-> FALSE]
NoOut == [op |-> "none", ok |-> FALSE, text |-> <<>>, exts |-> {},
          value |-> <<>>, counter |-> 0, entry |-> NoReq]

\* a call that returned r (True, a record or a path: ok; False or None: not
\* ok), one that returned from its except block, where it logs the error, and
\* one that raised f
Returned(r) == [NoRet EXCEPT !.status = "returned", !.ok = r]
Swallowed == [Returned(FALSE) EXCEPT !.logged = TRUE]
Raised(f) == [NoRet EXCEPT !.status = "raised", !.fault = f]

(***************************************************************************)
(* The file system.                                                        *)
(***************************************************************************)
\* path names a directory: a directory itself, or "", "." or ".." inside one
IsDirPath(d, path) ==
    \/ path \in d
    \/ /\ basename(path) \in {<<>>, <<46>>, <<46, 46>>}
       /\ dirname(path) \in d

\* os.path.exists(path)
exists(f, d, path) == path \in DOMAIN f \/ IsDirPath(d, path)

\* an open that keeps the content of an existing file (mode "r+b" or "ab")
OpenKeep(f, path) ==
    [x \in DOMAIN f \cup {path} |-> IF x \in DOMAIN f THEN f[x] ELSE <<>>]

\* open(path, "wb") on the files f: the file is created or truncated
OpenWb(f, path) == [x \in DOMAIN f \cup {path} |-> IF x = path THEN <<>> ELSE f[x]]

\* content after writing chunk at offset ofs (a gap is filled with zeros)
WriteAt(content, ofs, chunk) ==
    LET n == IF ofs + Len(chunk) > Len(content) THEN ofs + Len(chunk)
             ELSE Len(content)
    IN  [i \in 1..n |->
            IF i > ofs /\ i <= ofs + Len(chunk) THEN chunk[i - ofs]
            ELSE IF i <= Len(content) THEN content[i]
            ELSE 0]

\* os.remove(path) on the files f
Remove(f, path) == [x \in DOMAIN f \ {path} |-> f[x]]

\* handler p changes path: every other handler sees it as changed
Touch(p, path) ==
    dirty' = [q \in Procs |-> IF q = p THEN dirty[q] ELSE dirty[q] \cup {path}]

\* handler p changes the paths of touched with the first statement of a call
TouchFirst(p, touched) ==
    dirty' = [q \in Procs |-> IF q = p THEN {} ELSE dirty[q] \cup touched]

Init ==
    /\ \E S \in InitNames :
         /\ fs = [x \in {join(GroupPath, n) : n \in S} |-> OldContent]
         /\ dirs = IF S # {} THEN {UPLOAD_ROOT, GroupPath} ELSE {UPLOAD_ROOT}
    /\ writable \in BOOLEAN
    /\ pc = [p \in Procs |-> "idle"]
    /\ call = [p \in Procs |-> NoCall]
    /\ loc = [p \in Procs |-> NoLoc]
    /\ ret = [p \in Procs |-> NoRet]
    /\ pos = [p \in Procs |-> 0]
    /\ prev = [p \in Procs |-> [call |-> NoCall, ret |-> NoRet]]
    /\ dirty = [p \in Procs |-> {}]
    /\ prevDirty = [p \in Procs |-> {}]
    /\ ops = [p \in Procs |-> 0]
    /\ faults = 0
    /\ req = NoReq
    /\ out = NoOut

\* Handler 1 is a client that makes up to MaxOps calls of any kind; handler 2
\* is an upload request of UploadName: it resolves a destination for it and
\* saves its stream, from the start, to the path returned.
MayCall(p, c) ==
    IF p = 1 THEN ops[p] < MaxOps
    ELSE \/ ops[p] = 0 /\ c.op = "resolve" /\ c.name = UploadName
         \/ /\ ops[p] = 1 /\ c.op = "save" /\ c.from = 0
            /\ call[p].op = "resolve" /\ ret[p].status = "returned"

\* a step in which the storage fails without a cause in the state counts as
\* a fault; a cause in the state (a missing file, a directory that is not
\* writable) does not
Fault(injected) ==
    IF injected THEN faults < MaxFaults /\ faults' = faults + 1
    ELSE UNCHANGED faults

\* handler p begins call c: the call and its result before it are kept, and
\* the statement that follows is the first one of c
Begin(p, c) ==
    /\ pc[p] = "idle"
    /\ MayCall(p, c)
    /\ call' = [call EXCEPT ![p] = c]
    /\ prev' = [prev EXCEPT ![p] = [call |-> call[p], ret |-> ret[p]]]
    /\ prevDirty' = [prevDirty EXCEPT ![p] = dirty[p]]
    /\ ops' = [ops EXCEPT ![p] = @ + 1]

\* the call of handler p ends with r; its local variables are gone
End(p, r) ==
    /\ pc' = [pc EXCEPT ![p] = "idle"]
    /\ ret' = [ret EXCEPT ![p] = r]
    /\ loc' = [loc EXCEPT ![p] = NoLoc]

\* the paths handler p may pass to save, stat and delete: the path its last
\* resolution returned, or else the path of its last call, or else DestPaths
Dests(p) ==
    IF call[p].op = "resolve" /\ ret[p].status = "returned" THEN {ret[p].full}
    ELSE IF call[p].op \in {"save", "stat", "delete"} THEN {call[p].name}
    ELSE DestPaths

(***************************************************************************)
(* generate_file_path(group_dir, filename)                                 *)
(***************************************************************************)
\* a suffix numbered from 0 instead of 1
new_filename_from0(filename, counter) ==
    splitext(filename)[1] \o <<95>> \o str(counter - 1) \o splitext(filename)[2]

\* f"{base_name}_{counter}{ext}"
new_filename(filename, counter) ==
    splitext(filename)[1] \o <<95>> \o str(counter) \o splitext(filename)[2]

\* a loop that tests the path relative to the upload root instead
LoopCondRelative(f, d, full_path) ==
    exists(f, d, From(full_path, Len(UPLOAD_ROOT) + 2))

\* the condition of the while loop: os.path.exists(full_path)
LoopCond(f, d, full_path) == exists(f, d, full_path)

\* filename = normalize_filename(filename); os.makedirs(group_path,
\* exist_ok=True), which raises OSError when the directory cannot be made;
\* os.access(group_path, os.W_OK); then the first candidate
GfpMakedirs(p, name, ok) ==
    /\ Begin(p, [op |-> "resolve", name |-> name, from |-> 0])
    /\ TouchFirst(p, {})
    /\ GroupPath \in dirs => ok
    /\ IF ~ok
       THEN /\ End(p, Raised("OSError"))
            /\ UNCHANGED dirs
       ELSE /\ dirs' = dirs \cup {GroupPath}
            /\ IF ~writable
               THEN End(p, Raised("HTTPException"))
               ELSE LET filename == normalize_filename(Text(name))
                    IN  /\ loc' = [loc EXCEPT
                                    ![p].filename = filename,
                                    ![p].full_path = join(GroupPath, filename),
                                    ![p].relative_path = join(GroupDir, filename),
                                    ![p].counter = 1]
                        /\ pc' = [pc EXCEPT ![p] = "gfp_exists"]
                        /\ ret' = [ret EXCEPT ![p] = NoRet]
    /\ UNCHANGED <<fs, writable, pos, pure>>
    /\ Fault(~ok)

\* one test of the while loop, and its body when the candidate exists
GfpExists(p) ==
    /\ pc[p] = "gfp_exists"
    /\ IF LoopCond(fs, dirs, loc[p].full_path)
       THEN /\ loc' = [loc EXCEPT
                        ![p].full_path = join(GroupPath,
                            new_filename(loc[p].filename, loc[p].counter)),
                        ![p].relative_path = join(GroupDir,
                            new_filename(loc[p].filename, loc[p].counter)),
                        ![p].counter = @ + 1]
            /\ UNCHANGED pc
       ELSE /\ pc' = [pc EXCEPT ![p] = "gfp_return"]
            /\ UNCHANGED loc
    /\ UNCHANGED <<fsys, call, ret, pos, prev, dirty, prevDirty, ops, pure, faults>>

\* a resolution that reserves the path it returns by creating the file
GfpReturnReserving(p) ==
    /\ pc[p] = "gfp_return"
    /\ End(p, [Returned(TRUE) EXCEPT !.full = loc[p].full_path,
                                     !.rel = loc[p].relative_path])
    /\ fs' = OpenKeep(fs, loc[p].full_path)
    /\ Touch(p, loc[p].full_path)
    /\ UNCHANGED <<dirs, writable, call, pos, prev, prevDirty, ops, pure, faults>>

\* return full_path, relative_path
GfpReturn(p) ==
    /\ pc[p] = "gfp_return"
    /\ End(p, [Returned(TRUE) EXCEPT !.full = loc[p].full_path,
                                     !.rel = loc[p].relative_path])
    /\ UNCHANGED <<fsys, call, pos, prev, dirty, prevDirty, ops, pure, faults>>

(***************************************************************************)
(* save_uploaded_file(file, destination)                                   *)
(***************************************************************************)
\* a seek made on the success path only, not in a finally block
SeekOnSuccess(p, result, seek_ok) ==
    IF ~result
    THEN /\ End(p, Swallowed)
         /\ UNCHANGED pos
    ELSE IF seek_ok
    THEN /\ pos' = [pos EXCEPT ![p] = 0]
         /\ End(p, Returned(TRUE))
    ELSE /\ End(p, Raised("OSError"))
         /\ UNCHANGED pos

\* the finally block, after the try block set result: await file.seek(0),
\* and the error of a failing seek propagates
Finally(p, result, seek_ok) ==
    IF seek_ok
    THEN /\ pos' = [pos EXCEPT ![p] = 0]
         /\ End(p, IF result THEN Returned(TRUE) ELSE Swallowed)
    ELSE /\ End(p, Raised("OSError"))
         /\ UNCHANGED pos

\* a copy that writes its whole buffer, one byte more than it read
ReadChunkPadded(p, at, n) == SubSeq(Data(p), at + 1, at + n) \o <<0>>

\* the n bytes copyfileobj read from the stream of handler p at position at
ReadChunk(p, at, n) == SubSeq(Data(p), at + 1, at + n)

\* the bytes handler p read and handed to buffer.write that have not reached
\* the file: the buffered writer of open(destination, "wb") holds them
Pending(p) == (pos[p] - call[p].from) - loc[p].ofs

\* the buffered writer of handler p hands its bytes to the file until upto of
\* the bytes copied are in it, at the offset that follows those written
Flush(p, upto) ==
    IF upto > loc[p].ofs /\ loc[p].attached
    THEN /\ fs' = [fs EXCEPT ![call[p].name] =
                     WriteAt(@, loc[p].ofs,
                             ReadChunk(p, call[p].from + loc[p].ofs,
                                       upto - loc[p].ofs))]
         /\ Touch(p, call[p].name)
    ELSE UNCHANGED <<fs, dirty>>

\* the caller may have read the stream up to any position from; then
\* os.makedirs(os.path.dirname(destination), exist_ok=True) and
\* open(destination, "wb"): creating a file needs a writable directory, and
\* either may raise, which ends in the except block: result = False
SaveOpen(p, destination, from, mk_ok, open_ok) ==
    /\ Begin(p, [op |-> "save", name |-> destination, from |-> from])
    /\ dirname(destination) \in dirs => mk_ok
    /\ open_ok => /\ mk_ok
                  /\ ~IsDirPath(dirs, destination)
                  /\ writable \/ destination \in DOMAIN fs
    /\ dirs' = IF mk_ok THEN dirs \cup {dirname(destination)} ELSE dirs
    /\ pos' = [pos EXCEPT ![p] = from]
    /\ ret' = [ret EXCEPT ![p] = NoRet]
    /\ IF open_ok
       THEN /\ fs' = OpenWb(fs, destination)
            /\ loc' = [loc EXCEPT ![p].ofs = 0, ![p].attached = TRUE]
            /\ pc' = [pc EXCEPT ![p] = "save_copy"]
            /\ TouchFirst(p, {destination})
       ELSE /\ loc' = [loc EXCEPT ![p].result = FALSE]
            /\ pc' = [pc EXCEPT ![p] = "save_seek"]
            /\ TouchFirst(p, {})
            /\ UNCHANGED fs
    /\ UNCHANGED <<writable, pure>>
    /\ Fault(\/ ~mk_ok
             \/ /\ ~open_ok
                /\ ~IsDirPath(dirs, destination)
                /\ writable \/ destination \in DOMAIN fs)

\* shutil.copyfileobj(file.file, buffer): one read of n bytes and the
\* buffer.write of them, after which upto of the bytes copied are in the
\* file: the writer keeps them all (upto is as before), writes out what it
\* held and keeps the new ones, or writes out all. At the end of the stream
\* (n = 0) the with statement closes the file, which writes out what the
\* writer holds, and result = True. A failing read, write or close (~ok)
\* leaves the with statement, with what the writer held written out or not,
\* and result = False in the except block.
SaveCopy(p, n, upto, ok) ==
    /\ pc[p] = "save_copy"
    /\ n <= MaxData - pos[p]
    /\ IF ok THEN (n = 0) = (pos[p] = MaxData) ELSE n = 0
    /\ upto \in {loc[p].ofs, loc[p].ofs + Pending(p),
                 loc[p].ofs + Pending(p) + n}
    /\ (ok /\ n = 0) => upto = loc[p].ofs + Pending(p)
    /\ Flush(p, upto)
    /\ pos' = [pos EXCEPT ![p] = @ + n]
    /\ IF ok /\ n > 0
       THEN /\ loc' = [loc EXCEPT ![p].ofs = upto]
            /\ UNCHANGED pc
       ELSE /\ loc' = [loc EXCEPT ![p] = [NoLoc EXCEPT !.result = ok]]
            /\ pc' = [pc EXCEPT ![p] = "save_seek"]
    /\ UNCHANGED <<dirs, writable, call, ret, prev, prevDirty, ops, pure>>
    /\ Fault(~ok)

\* finally: await file.seek(0), where other requests run before the seek is
\* made; then return result
SaveSeek(p, seek_ok) ==
    /\ pc[p] = "save_seek"
    /\ Finally(p, loc[p].result, seek_ok)
    /\ UNCHANGED <<fsys, call, prev, dirty, prevDirty, ops, pure>>
    /\ Fault(~seek_ok)

(***************************************************************************)
(* get_file_stats(file_path)                                               *)
(***************************************************************************)
\* if not os.path.exists(file_path): return None
StatExists(p, file_path) ==
    /\ Begin(p, [op |-> "stat", name |-> file_path, from |-> 0])
    /\ TouchFirst(p, {})
    /\ IF exists(fs, dirs, file_path)
       THEN /\ pc' = [pc EXCEPT ![p] = "stat_stat"]
            /\ ret' = [ret EXCEPT ![p] = NoRet]
            /\ UNCHANGED loc
       ELSE End(p, Returned(FALSE))
    /\ UNCHANGED <<fsys, pos, pure, faults>>

\* the st_size os.stat reports for path (a directory's is not modelled)
StSize(f, path) == IF path \in DOMAIN f THEN Len(f[path]) ELSE 0

\* os.stat(file_path): the record, or None when it raises (the file is gone
\* by now, or another error)
StatStat(p, ok) ==
    /\ pc[p] = "stat_stat"
    /\ ok => exists(fs, dirs, call[p].name)
    /\ IF ok
       THEN End(p, [Returned(TRUE) EXCEPT !.size = StSize(fs, call[p].name)])
       ELSE End(p, Swallowed)
    /\ UNCHANGED <<fsys, call, pos, prev, dirty, prevDirty, ops, pure>>
    /\ Fault(~ok /\ exists(fs, dirs, call[p].name))

(***************************************************************************)
(* cleanup_file(file_path)                                                 *)
(***************************************************************************)
\* a missing file reported as a failure
AbsentIsFailure == FALSE

\* what cleanup_file returns for a path that does not exist
AbsentResult == TRUE

\* if os.path.exists(file_path): ... else: return True
DelExists(p, file_path) ==
    /\ Begin(p, [op |-> "delete", name |-> file_path, from |-> 0])
    /\ TouchFirst(p, {})
    /\ IF exists(fs, dirs, file_path)
       THEN /\ pc' = [pc EXCEPT ![p] = "del_remove"]
            /\ ret' = [ret EXCEPT ![p] = NoRet]
            /\ UNCHANGED loc
       ELSE End(p, Returned(AbsentResult))
    /\ UNCHANGED <<fsys, pos, pure, faults>>

\* os.remove(file_path); return True, or False when it raises: the path is
\* no regular file (any more), the directory is not writable, another error.
\* A handler that has the removed file open keeps writing to the unlinked
\* file.
DelRemove(p, ok) ==
    /\ pc[p] = "del_remove"
    /\ ok => (call[p].name \in DOMAIN fs /\ writable)
    /\ IF ok
       THEN /\ fs' = Remove(fs, call[p].name)
            /\ pc' = [pc EXCEPT ![p] = "idle"]
            /\ ret' = [ret EXCEPT ![p] = Returned(TRUE)]
            /\ loc' = [q \in Procs |->
                         IF q = p THEN NoLoc
                         ELSE IF call[q].name = call[p].name
                         THEN [loc[q] EXCEPT !.attached = FALSE] ELSE loc[q]]
            /\ Touch(p, call[p].name)
       ELSE /\ End(p, Swallowed)
            /\ UNCHANGED <<fs, dirty>>
    /\ UNCHANGED <<dirs, writable, call, pos, prev, prevDirty, ops, pure>>
    /\ Fault(~ok /\ call[p].name \in DOMAIN fs /\ writable)

(***************************************************************************)
(* The request handlers on the shared file system.                         *)
(***************************************************************************)
Next ==
    \E p \in Procs :
        \/ \E filename \in FileNames, ok \in BOOLEAN :
              GfpMakedirs(p, filename, ok)
        \/ GfpExists(p)
        \/ GfpReturn(p)
        \/ \E d \in Dests(p), from \in EntryPositions :
              \E mk_ok, open_ok \in BOOLEAN :
                 SaveOpen(p, d, from, mk_ok, open_ok)
        \/ \E n, upto \in 0..MaxData, ok \in BOOLEAN :
              SaveCopy(p, n, upto, ok)
        \/ \E seek_ok \in BOOLEAN : SaveSeek(p, seek_ok)
        \/ \E d \in Dests(p) : StatExists(p, d)
        \/ \E ok \in BOOLEAN : StatStat(p, ok)
        \/ \E d \in Dests(p) : DelExists(p, d)
        \/ \E ok \in BOOLEAN : DelRemove(p, ok)

Spec == Init /\ [][Next]_vars

(***************************************************************************)
(* validate_upload_file(file)                                              *)
(***************************************************************************)
\* "文件名不能为空"
MsgEmptyName == <<25991, 20214, 21517, 19981, 33021, 20026, 31354>>

\* "不支持的文件类型。允许的类型: "; the message goes on with the extensions
\* of `exts`, joined in the order the set iterates
MsgBadType == <<19981, 25903, 25345, 30340, 25991, 20214, 31867, 22411, 12290,
                20801, 35768, 30340, 31867, 22411, 58, 32>>

\* an extension test that does not lower-case the filename
ExtAllowedAsWritten(filename) == splitext(filename)[2] \in ALLOWED_EXTENSIONS

\* the extension test of validate_upload_file:
\* _, ext = os.path.splitext(file.filename.lower()); ext in ALLOWED_EXTENSIONS
ExtAllowed(filename) == splitext(lower(filename))[2] \in ALLOWED_EXTENSIONS

\* validate_upload_file(file): the pair returned (ok, text and the set whose
\* members the text lists) and the request as it is left
validate_upload_file(file) ==
    IF ~file.present \/ file.filename.v = <<>>
    THEN [ok |-> FALSE, text |-> MsgEmptyName, exts |-> {}, file |-> file]
    ELSE LET filename == normalize_filename(file.filename)
             after == [file EXCEPT !.filename = Text(filename)]
         IN  IF ~ExtAllowed(filename)
             THEN [ok |-> FALSE, text |-> MsgBadType,
                   exts |-> ALLOWED_EXTENSIONS, file |-> after]
             ELSE [ok |-> TRUE, text |-> <<>>, exts |-> {}, file |-> after]

(***************************************************************************)
(* The pure functions applied to bounded inputs.                           *)
(***************************************************************************)
\* the unsafe characters, '_', 'a', '.', the combining overlay, KELVIN SIGN
FullAlphabet == UnsafeChars \cup {95, 97, 46, 824, 8490}

\* a . m d M D /
ExtAlphabet == {97, 46, 109, 100, 77, 68, 47}

\* '/', 'a', '<', 0xC3, 0xA9, 0xFF
ByteAlphabet == {47, 97, 60, 195, 169, 255}

PureInputs ==
    {[filename |-> Text(t), present |-> TRUE] :
        t \in SeqsUpTo(FullAlphabet, MaxLen) \cup SeqsUpTo(ExtAlphabet, MaxExtLen)}
    \cup {[filename |-> Bytes(b), present |-> TRUE] :
             b \in SeqsUpTo(ByteAlphabet, MaxLen)}
    \cup {NoReq}

PureInit ==
    /\ fs = <<>>
    /\ dirs = {UPLOAD_ROOT}
    /\ writable = TRUE
    /\ pc = [p \in Procs |-> "idle"]
    /\ call = [p \in Procs |-> NoCall]
    /\ loc = [p \in Procs |-> NoLoc]
    /\ ret = [p \in Procs |-> NoRet]
    /\ pos = [p \in Procs |-> 0]
    /\ prev = [p \in Procs |-> [call |-> NoCall, ret |-> NoRet]]
    /\ dirty = [p \in Procs |-> {}]
    /\ prevDirty = [p \in Procs |-> {}]
    /\ ops = [p \in Procs |-> 0]
    /\ faults = 0
    /\ req \in PureInputs
    /\ out = NoOut

handlers == <<pc, call, loc, ret, pos, prev, dirty, prevDirty, ops, faults>>

\* normalize_filename(filename) on the filename of the request
DoNormalize ==
    /\ out.op = "none"
    /\ req.present
    /\ out' = [NoOut EXCEPT !.op = "normalize", !.entry = req,
                            !.value = normalize_filename(req.filename)]
    /\ UNCHANGED <<fsys, handlers, req>>

\* validate_upload_file(file) on the request, which it changes
DoValidate ==
    /\ out.op = "none"
    /\ LET r == validate_upload_file(req)
       IN  /\ out' = [NoOut EXCEPT !.op = "validate", !.entry = req,
                                   !.ok = r.ok, !.text = r.text,
                                   !.exts = r.exts]
           /\ req' = r.file
    /\ UNCHANGED <<fsys, handlers>>

\* the candidate of generate_file_path for the filename at a counter
DoCandidate(counter) ==
    /\ out.op = "none"
    /\ req.present
    /\ out' = [NoOut EXCEPT !.op = "candidate", !.entry = req,
                            !.counter = counter,
                            !.value = new_filename(
                                normalize_filename(req.filename), counter)]
    /\ UNCHANGED <<fsys, handlers, req>>

PureNext ==
    \/ DoNormalize
    \/ DoValidate
    \/ \E counter \in 1..MaxCounter : DoCandidate(counter)

PureSpec == PureInit /\ [][PureNext]_vars

(***************************************************************************)
(* Properties.                                                             *)
(***************************************************************************)
\* the other handler
Other(p) == CHOOSE q \in Procs : q # p

\* handler p finished a call of op that returned
Done(p, op) ==
    pc[p] = "idle" /\ call[p].op = op /\ ret[p].status = "returned"

\* the call before the current one of handler p was a call of op that returned
DoneBefore(p, op) ==
    prev[p].call.op = op /\ prev[p].ret.status = "returned"

\* C1 as claimed: whenever generate_file_path returns, also interleaved with
\* other requests, the path it returns names no existing file at that moment.
C1_ReturnedPathFree ==
    [][\A p \in Procs :
          GfpReturn(p) => ~exists(fs', dirs', ret'[p].full)]_vars

\* C1 as amended: the path generate_file_path returns named no existing file
\* when the existence test that ended its loop was made, and it still names
\* none when it is returned if no other request changed a file during the
\* call.
C1_PathFreeWhenTested ==
    [][\A p \in Procs :
          /\ (pc[p] = "gfp_exists" /\ pc'[p] = "gfp_return")
                => ~exists(fs', dirs', loc'[p].full_path)
          /\ GfpReturn(p)
                => /\ ret'[p].full = loc[p].full_path
                   /\ dirty[p] = {} => ~exists(fs', dirs', ret'[p].full)]_vars

\* a resolution returned a suffixed path while the other handler was in the
\* middle of a call and had changed a file
C1_Witness ==
    \E p \in Procs :
        /\ Done(p, "resolve")
        /\ ret[p].full # join(GroupPath, normalize_filename(Text(call[p].name)))
        /\ pc[Other(p)] # "idle"
        /\ dirty[p] # {}

\* base_k+ext for the normalized name n
Suffixed(n, k) == splitext(n)[1] \o <<95>> \o str(k) \o splitext(n)[2]

\* C2: a resolution during which no other request changed a file returns the
\* normalized name when nothing exists under it, and otherwise base_k+ext for
\* the smallest k >= 1 under which nothing exists (base_1 .. base_(k-1) all
\* exist); the full and the relative path returned name the same file.
C2_SmallestFreeSuffix ==
    \A p \in Procs :
        (Done(p, "resolve") /\ dirty[p] = {}) =>
            LET n == normalize_filename(Text(call[p].name))
                taken(k) == exists(fs, dirs, join(GroupPath, Suffixed(n, k)))
            IN  /\ ~exists(fs, dirs, join(GroupPath, n))
                      => ret[p].full = join(GroupPath, n)
                /\ exists(fs, dirs, join(GroupPath, n))
                      => \E k \in 1..(Cardinality(DOMAIN fs) + 1) :
                            /\ ret[p].full = join(GroupPath, Suffixed(n, k))
                            /\ ~taken(k)
                            /\ \A j \in 1..(k - 1) : taken(j)
                /\ ret[p].full = join(UPLOAD_ROOT, ret[p].rel)
                /\ ret[p].rel = join(GroupDir, basename(ret[p].full))

\* with r.p and r_1.p present the resolution of r.p returned r_2.p
C2_Witness ==
    \E p \in Procs :
        /\ Done(p, "resolve") /\ dirty[p] = {}
        /\ call[p].name = <<114, 46, 112>>
        /\ ret[p].full = join(GroupPath, <<114, 95, 50, 46, 112>>)
        /\ ret[p].rel = join(GroupDir, <<114, 95, 50, 46, 112>>)

\* handler p resolved a destination and then saved to it, and save returned
\* True
Uploaded(p) ==
    /\ Done(p, "save") /\ ret[p].ok
    /\ DoneBefore(p, "resolve")
    /\ prev[p].ret.full = call[p].name

\* the bytes the save of handler p copies: its stream from the entry position
Written(p) == SubSeq(Data(p), call[p].from + 1, MaxData)

\* C3: two uploads of the same filename can resolve to the same path and
\* both save with True; when the writes of q came after those of p, the file
\* holds the bytes of q only, and nothing of p remains.
C3_LastWriterWins ==
    \A p, q \in Procs :
        (/\ p # q
         /\ Uploaded(p) /\ Uploaded(q)
         /\ prev[p].call.name = prev[q].call.name
         /\ call[p].name = call[q].name
         /\ dirty[q] = {})
        => /\ call[q].name \in DOMAIN fs
           /\ fs[call[q].name] = Written(q)

\* both uploads resolved to one path, both saves returned True, p wrote a
\* byte, q wrote after it, and the file holds what q wrote
C3_Witness ==
    \E p, q \in Procs :
        /\ p # q
        /\ Uploaded(p) /\ Uploaded(q)
        /\ prev[p].call.name = prev[q].call.name
        /\ call[p].name = call[q].name
        /\ dirty[q] = {} /\ call[p].name \in dirty[p]
        /\ Written(p) # <<>> /\ Written(q) # <<>>
        /\ Written(q) # Written(p)
        /\ fs[call[q].name] = Written(q)

\* C5: whenever save_uploaded_file returns, True or False, the stream is at
\* its start, whatever its position was on entry.
C5_StreamRewound ==
    \A p \in Procs : Done(p, "save") => pos[p] = 0

\* a save entered with the stream past its start returned False
C5_Witness ==
    \E p \in Procs :
        Done(p, "save") /\ ~ret[p].ok /\ call[p].from > 0 /\ pos[p] = 0

\* the first step of cleanup_file by handler p
DeleteFirst(p) == \E d \in Dests(p) : DelExists(p, d)

\* a step of cleanup_file by handler p
DeleteStep(p) == DeleteFirst(p) \/ \E ok \in BOOLEAN : DelRemove(p, ok)

\* C7: cleanup_file of a path under which nothing exists returns True and
\* changes no file; it returns False only from the statement that removes a
\* file found to exist, and then removes nothing; and a cleanup_file that
\* follows one of the same path that returned True, with no change by other
\* requests in between, returns True.
C7_DeleteIdempotent ==
    [][\A p \in Procs :
          /\ (DeleteFirst(p) /\ ~exists(fs, dirs, call'[p].name))
                => /\ ret'[p] = Returned(TRUE)
                   /\ fs' = fs
          /\ (DeleteStep(p) /\ pc'[p] = "idle" /\ ~ret'[p].ok)
                => /\ pc[p] = "del_remove"
                   /\ ret'[p].status = "returned"
                   /\ fs' = fs
          /\ (/\ Done(p, "delete") /\ DoneBefore(p, "delete")
              /\ prev[p].call.name = call[p].name
              /\ prev[p].ret.ok
              /\ prevDirty[p] = {} /\ dirty[p] = {})' => ret'[p].ok]_vars

\* handler 1 removed a file with its first cleanup_file, and its second one
\* of the same path returned True as well
C7_Witness ==
    /\ Done(1, "delete") /\ DoneBefore(1, "delete")
    /\ prev[1].call.name = call[1].name
    /\ prev[1].ret.ok /\ ret[1].ok
    /\ prevDirty[1] = {} /\ dirty[1] = {}
    /\ ops[1] = 2
    /\ call[1].name \in dirty[2]

\* C8: a get_file_stats that follows a save_uploaded_file of the same path
\* that returned True, with no change of that path by other requests in
\* between and no error of its own, returns a record whose size is the
\* number of bytes the save copied; the file holds those bytes and nothing of
\* what it held before.
C8_SaveThenStat ==
    \A p \in Procs :
        (/\ Done(p, "stat") /\ DoneBefore(p, "save")
         /\ prev[p].call.name = call[p].name
         /\ prev[p].ret.ok
         /\ call[p].name \notin prevDirty[p] \cup dirty[p]
         /\ ~ret[p].logged)
        => /\ ret[p].ok
           /\ ret[p].size = MaxData - prev[p].call.from
           /\ call[p].name \in DOMAIN fs
           /\ fs[call[p].name] = SubSeq(Data(p), prev[p].call.from + 1, MaxData)

\* a save that copied at least one byte, fewer than a file of the start
\* holds, was followed by a stat that returned a record
C8_Witness ==
    \E p \in Procs :
        /\ Done(p, "stat") /\ DoneBefore(p, "save")
        /\ prev[p].call.name = call[p].name
        /\ prev[p].ret.ok
        /\ call[p].name \notin prevDirty[p] \cup dirty[p]
        /\ ret[p].ok /\ ret[p].size > 0
        /\ ret[p].size < Len(OldContent)

\* a step of generate_file_path by handler p
ResolveStep(p) ==
    \/ \E filename \in FileNames, ok \in BOOLEAN : GfpMakedirs(p, filename, ok)
    \/ GfpExists(p)
    \/ GfpReturn(p)

\* C10: generate_file_path changes no file, whether it returns or raises; it
\* creates at most the group directory; and of two successive resolutions of
\* one filename with no change of a file in between, the second returns the
\* path the first returned.
C10_ResolveReservesNothing ==
    [][\A p \in Procs :
          /\ ResolveStep(p)
                => /\ fs' = fs
                   /\ dirs' \in {dirs, dirs \cup {GroupPath}}
                   /\ writable' = writable
          /\ (/\ Done(p, "resolve") /\ DoneBefore(p, "resolve")
              /\ prev[p].call.name = call[p].name
              /\ prevDirty[p] = {} /\ dirty[p] = {})'
                => /\ ret'[p].full = prev'[p].ret.full
                   /\ ret'[p].rel = prev'[p].ret.rel]_vars

\* two successive resolutions of r.p returned r_1.p both times
C10_Witness ==
    \E p \in Procs :
        /\ Done(p, "resolve") /\ DoneBefore(p, "resolve")
        /\ prev[p].call.name = call[p].name
        /\ prevDirty[p] = {} /\ dirty[p] = {}
        /\ ret[p].full = join(GroupPath, <<114, 95, 49, 46, 112>>)
        /\ prev[p].ret.full = ret[p].full

\* C4 as claimed: the only fault that escapes an operation is the
\* HTTPException generate_file_path raises for a directory that is not
\* writable; every file system failure ends in a return value.
C4_OnlyStorageUnavailableEscapes ==
    \A p \in Procs :
        ret[p].status = "raised"
            => call[p].op = "resolve" /\ ret[p].fault = "HTTPException"

\* C6: validate_upload_file returns True with an empty message exactly when
\* the filename is present and not empty and the lower-cased extension of its
\* normalized form is allowed; otherwise it returns False with a message that
\* is not empty; and when it returns True the request holds the normalized
\* form of the filename it held on entry.
C6_ValidateUpload ==
    out.op = "validate" =>
        LET n == normalize_filename(out.entry.filename)
            allowed == /\ out.entry.present
                       /\ out.entry.filename.v # <<>>
                       /\ lower(splitext(n)[2]) \in ALLOWED_EXTENSIONS
        IN  /\ (out.ok /\ out.text = <<>>) <=> allowed
            /\ ~allowed => (~out.ok /\ out.text # <<>>)
            /\ out.ok => (req.present /\ req.filename = Text(n))

\* a filename with an unsafe character and an extension in upper case was
\* accepted, and the request holds another filename than on entry
C6_Witness ==
    /\ out.op = "validate" /\ out.ok
    /\ req.filename # out.entry.filename
    /\ \E i \in 1..Len(out.entry.filename.v) :
          out.entry.filename.v[i] \in UnsafeChars
    /\ splitext(req.filename.v)[2] \notin ALLOWED_EXTENSIONS

\* C9: the result of normalize_filename holds none of \ / * ? : " < > |, and
\* neither does a candidate name of generate_file_path, with its _N suffix:
\* no name placed under the group directory holds a path separator.
C9_NoUnsafeCharacter ==
    out.op \in {"normalize", "candidate"} =>
        /\ \A i \in 1..Len(out.value) : out.value[i] \notin UnsafeChars
        /\ dirname(join(GroupPath, out.value)) = GroupPath
        /\ basename(join(GroupPath, out.value)) = out.value

\* a suffixed candidate was made for a filename that holds two separators
C9_Witness ==
    /\ out.op = "candidate"
    /\ \E i, j \in 1..Len(out.entry.filename.v) :
          /\ i < j
          /\ out.entry.filename.v[i] = 47
          /\ out.entry.filename.v[j] \in {47, 92}

====
